---- MODULE Spec2Model ----
(***************************************************************************)
(* Model of package pdb (src/pdb.go): loading a PDB/MSF multistream file.  *)
(* The file is a sequence of bytes; every decode below works on the bytes  *)
(* as encoding/binary does (little endian, fixed widths).  A Go panic is   *)
(* an outcome of its own ("panic"): it is neither a returned error nor a   *)
(* returned value, and it ends the program.                                *)
(***************************************************************************)
EXTENDS Integers, Sequences, FiniteSets, TLC

(* ---------------------------------------------------------------------- *)
(* Bounds of the model                                                    *)
(* ---------------------------------------------------------------------- *)

\* Largest number of streams an input file declares.
MaxStreams == 2

\* Smallest page size of an input file; the other page size is twice this.
SmallPage == 16

\* Largest number of spare bytes between len(Data) and cap(Data).
MaxSlack == 1

(* ---------------------------------------------------------------------- *)
(* Bytes and little-endian integers (encoding/binary, binary.LittleEndian) *)
(* ---------------------------------------------------------------------- *)

Abs(n) == IF n < 0 THEN -n ELSE n

Zeros(n) == [k \in 1..n |-> 0]

RECURSIVE Flatten(_)
Flatten(ss) == IF ss = <<>> THEN <<>> ELSE Head(ss) \o Flatten(Tail(ss))

RECURSIVE SumSeq(_)
SumSeq(s) == IF s = <<>> THEN 0 ELSE Head(s) + SumSeq(Tail(s))

\* The two bytes of a uint16, low byte first.
PutU16(n) == <<n % 256, (n \div 256) % 256>>

\* The four bytes of an int32 (two's complement), low byte first; \div
\* rounds down and % is never negative, so a negative n gives its two's
\* complement bytes.
PutI32(n) ==
    <<n % 256, (n \div 256) % 256, (n \div 65536) % 256, (n \div 16777216) % 256>>

\* uint16 at byte offset off (0-based) of s.
U16At(s, off) == s[off + 1] + 256 * s[off + 2]

\* int32 at byte offset off (0-based) of s.
I32At(s, off) ==
    s[off + 1] + 256 * s[off + 2] + 65536 * s[off + 3]
    + 16777216 * (IF s[off + 4] >= 128 THEN s[off + 4] - 256 ELSE s[off + 4])

\* uint32 at byte offset off (0-based) of s; the inputs of the model keep
\* the top byte below 128.
U32At(s, off) ==
    s[off + 1] + 256 * s[off + 2] + 65536 * s[off + 3] + 16777216 * s[off + 4]

(* ---------------------------------------------------------------------- *)
(* Go semantics the code relies on                                        *)
(* ---------------------------------------------------------------------- *)

\* The value of a nil pointer field of File.
Nil == [nil |-> TRUE]

\* The builds the conversion int(+Inf), int(NaN) differs between.
Archs == {"amd64", "arm64"}

\* A length that make([]T, n) rejects with a panic (negative, or too large).
BadLen == -1

\* int(math.Ceil(float64(a) / float64(b))) for int32 a, b.  The quotient of
\* two int32 values is exact enough in float64 for Ceil to be the exact
\* ceiling.  With b = 0 the quotient is NaN or an infinity and the
\* conversion is implementation-dependent: amd64 gives the smallest int64,
\* arm64 gives 0 for NaN and saturates an infinity; every one of these but 0
\* is a length make rejects.
CeilInt(a, b, arc) ==
    IF b = 0 THEN (IF a = 0 /\ arc = "arm64" THEN 0 ELSE BadLen)
    ELSE IF a = 0 THEN 0
    ELSE IF (a > 0) = (b > 0) THEN (Abs(a) + Abs(b) - 1) \div Abs(b)
    ELSE -(Abs(a) \div Abs(b))

\* The error of binary.Read for n bytes at offset pos of a bytes.Reader over
\* s (io.ReadFull): nil when n bytes remain (always, for n = 0), io.EOF when
\* none remains, io.ErrUnexpectedEOF when too few remain.
ReadErr(s, pos, n) ==
    IF pos + n <= Len(s) THEN "nil"
    ELSE IF pos >= Len(s) THEN "EOF"
    ELSE "unexpected EOF"

\* The errors of a read that ran out of bytes.
EOFErrors == {"EOF", "unexpected EOF"}

(* ---------------------------------------------------------------------- *)
(* The pure parts of pdb.go                                               *)
(* ---------------------------------------------------------------------- *)

\* The fixed stream number of the PDB stream.
StreamIDPDBStream == 1

\* Length of the Magic field.
MagicLen == 44

\* Bytes of the fixed fields of MSFHeader: Magic, PageSize,
\* FreePageMapPageNum, NPages, StreamTblInfo.
FixedHdrLen == 60

msfSignature ==
    << 77, 105, 99, 114, 111, 115, 111, 102, 116, 32, 67, 47, 67, 43, 43, 32,
       112, 114, 111, 103, 114, 97, 109, 32, 100, 97, 116, 97, 98, 97, 115,
       101, 32, 50, 46, 48, 48, 13, 10, 26, 74, 71, 0, 0 >>

\* Any MSFHeader value; the placeholder of a result that carries none.
NoHdr == Nil

\* A parse that returns (nil, err).
HdrFailed(err) == [st |-> "err", err |-> err, hdr |-> NoHdr]

\* A parse that panics.
HdrPanic == [st |-> "panic", err |-> "nil", hdr |-> NoHdr]

\* Lines 145-168 of parseMSFHeader: the fields after Magic.  st is "ok" (hdr
\* returned), "err" (nil, err) or "panic" (make given a length it rejects).
parseMSFFields(data, arc) ==
    IF ReadErr(data, 44, 4) # "nil" THEN HdrFailed(ReadErr(data, 44, 4))
    ELSE IF ReadErr(data, 48, 2) # "nil" THEN HdrFailed(ReadErr(data, 48, 2))
    ELSE IF ReadErr(data, 50, 2) # "nil" THEN HdrFailed(ReadErr(data, 50, 2))
    ELSE IF ReadErr(data, 52, 8) # "nil" THEN HdrFailed(ReadErr(data, 52, 8))
    ELSE
      LET PageSize == I32At(data, 44)
          Size     == I32At(data, 52)
          streamTblNPages == CeilInt(Size, PageSize, arc)
      IN  IF streamTblNPages < 0 THEN HdrPanic
          ELSE IF ReadErr(data, FixedHdrLen, 2 * streamTblNPages) # "nil"
               THEN HdrFailed(ReadErr(data, FixedHdrLen, 2 * streamTblNPages))
          ELSE [st |-> "ok", err |-> "nil",
                hdr |-> [Magic              |-> SubSeq(data, 1, MagicLen),
                         PageSize           |-> PageSize,
                         FreePageMapPageNum |-> U16At(data, 48),
                         NPages             |-> U16At(data, 50),
                         StreamTblInfo      |-> [Size |-> Size, Unknown |-> I32At(data, 56)],
                         PageNumMap         |-> [k \in 1..streamTblNPages |->
                                                   U16At(data, FixedHdrLen + 2 * (k - 1))]]]

\* A parseMSFHeader that compares only the text of the signature, up to the
\* line end, and not the five bytes after it.
parseMSFHeaderTextOnly(data, arc) ==
    IF ReadErr(data, 0, MagicLen) # "nil" THEN HdrFailed(ReadErr(data, 0, MagicLen))
    ELSE IF SubSeq(data, 1, 39) # SubSeq(msfSignature, 1, 39)
      THEN HdrFailed("invalid MSF signature")
    ELSE parseMSFFields(data, arc)

\* parseMSFHeader(bytes.NewReader(data)): the 44 bytes of Magic must be read
\* and equal msfSignature; then the other fields.
parseMSFHeader(data, arc) ==
    IF ReadErr(data, 0, MagicLen) # "nil" THEN HdrFailed(ReadErr(data, 0, MagicLen))
    ELSE IF SubSeq(data, 1, MagicLen) # msfSignature
      THEN HdrFailed("invalid MSF signature")
    ELSE parseMSFFields(data, arc)

\* file.readPage(pageNum) = file.Data[start:end] on the array arr that backs
\* Data (len(arr) = cap(Data)): a slice expression panics unless
\* 0 <= start <= end <= cap; otherwise it is a view of arr at offset start.
readPage(arr, pageSize, pageNum) ==
    LET start == pageNum * pageSize
        end   == start + pageSize
    IN  IF 0 <= start /\ start <= end /\ end <= Len(arr)
        THEN [st |-> "ok", off |-> start, bytes |-> SubSeq(arr, start + 1, end)]
        ELSE [st |-> "panic", off |-> start, bytes |-> <<>>]

\* The pages pageNumMap names, read in list order: the sequence of readPage
\* results up to and including the first that panics.
RECURSIVE readPages(_, _, _)
readPages(arr, pageSize, pageNumMap) ==
    IF pageNumMap = <<>> THEN <<>>
    ELSE LET pg == readPage(arr, pageSize, Head(pageNumMap))
         IN  IF pg.st = "panic" THEN <<pg>>
             ELSE <<pg>> \o readPages(arr, pageSize, Tail(pageNumMap))

\* The loop "for each page: append(streamData, readPage(page)...)" followed
\* by streamData[:size].  append copies into an array of its own, so the
\* result shares nothing with arr.  st is "panic" when a readPage panics or
\* when size is outside 0..len (the appended length is the page count times
\* pageSize, and size never exceeds it when it is not negative).
concatPages(arr, pageSize, pageNumMap, size) ==
    LET pgs  == readPages(arr, pageSize, pageNumMap)
        all  == Flatten([k \in 1..Len(pgs) |-> pgs[k].bytes])
    IN  IF \E k \in 1..Len(pgs) : pgs[k].st = "panic"
          THEN [st |-> "panic", bytes |-> <<>>, own |-> TRUE, off |-> 0]
        ELSE IF size < 0 \/ size > Len(all)
          THEN [st |-> "panic", bytes |-> <<>>, own |-> TRUE, off |-> 0]
        ELSE [st |-> "ok", bytes |-> SubSeq(all, 1, size), own |-> TRUE, off |-> 0]

\* file.readStreamTable(): the first streamTblNPages entries of
\* FileHdr.PageNumMap, concatenated and cut to StreamTblInfo.Size.
readStreamTable(arr, hdr, arc) ==
    LET streamTblNPages == CeilInt(hdr.StreamTblInfo.Size, hdr.PageSize, arc)
    IN  concatPages(arr, hdr.PageSize,
                    SubSeq(hdr.PageNumMap, 1, streamTblNPages),
                    hdr.StreamTblInfo.Size)

\* Any StreamTable value; the placeholder of a result that carries none.
NoTbl == Nil

\* A PageNumMaps loop that reads every list at the same offset, the start
\* of the page-index section.
RECURSIVE parsePageNumMapsSameOffset(_, _, _, _, _, _)
parsePageNumMapsSameOffset(data, pos, infos, i, pageSize, arc) ==
    IF i > Len(infos) THEN [st |-> "ok", err |-> "nil", maps |-> <<>>]
    ELSE LET streamNPages == CeilInt(infos[i].Size, pageSize, arc)
         IN  IF streamNPages < 0 THEN [st |-> "panic", err |-> "nil", maps |-> <<>>]
             ELSE IF ReadErr(data, pos, 2 * streamNPages) # "nil"
               THEN [st |-> "err", err |-> ReadErr(data, pos, 2 * streamNPages), maps |-> <<>>]
             ELSE LET rest == parsePageNumMapsSameOffset(data, pos, infos, i + 1, pageSize, arc)
                      this == [k \in 1..streamNPages |-> U16At(data, pos + 2 * (k - 1))]
                  IN  IF rest.st # "ok" THEN rest
                      ELSE [st |-> "ok", err |-> "nil", maps |-> <<this>> \o rest.maps]

\* The PageNumMaps loop of parseStreamTable from stream i on, reading at
\* offset pos of data; infos are the decoded StreamInfos.
RECURSIVE parsePageNumMaps(_, _, _, _, _, _)
parsePageNumMaps(data, pos, infos, i, pageSize, arc) ==
    IF i > Len(infos) THEN [st |-> "ok", err |-> "nil", maps |-> <<>>]
    ELSE LET streamNPages == CeilInt(infos[i].Size, pageSize, arc)
         IN  IF streamNPages < 0 THEN [st |-> "panic", err |-> "nil", maps |-> <<>>]
             ELSE IF ReadErr(data, pos, 2 * streamNPages) # "nil"
               THEN [st |-> "err", err |-> ReadErr(data, pos, 2 * streamNPages), maps |-> <<>>]
             ELSE LET rest == parsePageNumMaps(data, pos + 2 * streamNPages, infos,
                                               i + 1, pageSize, arc)
                      this == [k \in 1..streamNPages |-> U16At(data, pos + 2 * (k - 1))]
                  IN  IF rest.st # "ok" THEN rest
                      ELSE [st |-> "ok", err |-> "nil", maps |-> <<this>> \o rest.maps]

\* file.parseStreamTable(bytes.NewReader(data)).
parseStreamTable(data, pageSize, arc) ==
    IF ReadErr(data, 0, 4) # "nil"
      THEN [st |-> "err", err |-> ReadErr(data, 0, 4), tbl |-> NoTbl]
    ELSE
      LET NStreams == U32At(data, 0)
      IN  IF ReadErr(data, 4, 8 * NStreams) # "nil"
            THEN [st |-> "err", err |-> ReadErr(data, 4, 8 * NStreams), tbl |-> NoTbl]
          ELSE
            LET StreamInfos == [k \in 1..NStreams |->
                                  [Size    |-> I32At(data, 4 + 8 * (k - 1)),
                                   Unknown |-> I32At(data, 8 + 8 * (k - 1))]]
                m == parsePageNumMaps(data, 4 + 8 * NStreams, StreamInfos, 1, pageSize, arc)
            IN  IF m.st # "ok" THEN [st |-> m.st, err |-> m.err, tbl |-> NoTbl]
                ELSE [st |-> "ok", err |-> "nil",
                      tbl |-> [NStreams    |-> NStreams,
                               StreamInfos |-> StreamInfos,
                               PageNumMaps |-> m.maps]]

\* A readStreamData that returns all the bytes of the stream's pages, the
\* slack of the last page included.
readStreamDataNoCut(arr, pageSize, tbl, streamNum) ==
    IF streamNum < 0 \/ streamNum >= Len(tbl.StreamInfos)
      THEN [st |-> "panic", bytes |-> <<>>, own |-> TRUE, off |-> 0]
    ELSE LET m == tbl.PageNumMaps[streamNum + 1]
         IN  concatPages(arr, pageSize, m, Len(m) * pageSize)

\* A readStreamData that spares the copy for a stream of one page and
\* returns the page itself, cut to the stream's size: a view of Data.
readStreamDataView(arr, pageSize, tbl, streamNum) ==
    IF streamNum < 0 \/ streamNum >= Len(tbl.StreamInfos)
      THEN [st |-> "panic", bytes |-> <<>>, own |-> TRUE, off |-> 0]
    ELSE LET m    == tbl.PageNumMaps[streamNum + 1]
             size == tbl.StreamInfos[streamNum + 1].Size
             c    == concatPages(arr, pageSize, m, size)
         IN  IF Len(m) = 1 /\ c.st = "ok"
               THEN [c EXCEPT !.own = FALSE, !.off = m[1] * pageSize]
             ELSE c

\* file.readStreamData(streamNum): indexing StreamInfos or PageNumMaps out
\* of range panics.  Stream streamNum is element streamNum + 1 here.
readStreamData(arr, pageSize, tbl, streamNum) ==
    IF streamNum < 0 \/ streamNum >= Len(tbl.StreamInfos)
      THEN [st |-> "panic", bytes |-> <<>>, own |-> TRUE, off |-> 0]
    ELSE concatPages(arr, pageSize, tbl.PageNumMaps[streamNum + 1],
                     tbl.StreamInfos[streamNum + 1].Size)

\* Bit j (0 = lowest) of byte b.
Bit(b, j) == (b \div (2 ^ j)) % 2

\* fpm.IsFree(pageNum) for pageNum >= 0: PageBits[i] panics when i is not
\* below len(PageBits).
IsFree(PageBits, pageNum) ==
    LET i == pageNum \div 8
        j == pageNum % 8
    IN  IF i >= Len(PageBits) THEN [st |-> "panic", free |-> FALSE]
        ELSE [st |-> "ok", free |-> Bit(PageBits[i + 1], j) # 0]

(* ---------------------------------------------------------------------- *)
(* Input files                                                            *)
(* ---------------------------------------------------------------------- *)
(* An input is a container laid out as: the superblock (padded to a page   *)
(* boundary), the free page map page, the stream directory pages, the data *)
(* pages of the streams in stream order; and then at most one defect f.    *)
(* ---------------------------------------------------------------------- *)

Min(a, b) == IF a <= b THEN a ELSE b

PageSizes == {SmallPage, 2 * SmallPage}

\* The spare capacity of the buffer ioutil.ReadFile returns: none, a few
\* bytes, a whole page.
Slacks(P) == (0..MaxSlack) \cup {P}

\* Declared stream sizes: empty, one byte, a full page, a page and a byte.
StreamSizes(P) == {0, 1, P, P + 1}

\* All sequences over S of length 0..n.
SeqsUpTo(S, n) == UNION {[1..k -> S] : k \in 0..n}

NoFault == [kind |-> "none", a |-> 0, b |-> 0]

\* The number of pages of size P that hold size bytes.
PagesFor(size, P) == IF size <= 0 THEN 0 ELSE (size + P - 1) \div P

\* The layout of the container with page size P and stream sizes sizes
\* under defect f.
Layout(P, sizes, f) ==
    LET N      == Len(sizes)
        decl   == [i \in 1..N |-> IF f.kind = "size" /\ f.a = i THEN f.b ELSE sizes[i]]
        n      == [i \in 1..N |-> PagesFor(decl[i], P)]
        dirLen == 4 + 8 * N + 2 * SumSeq(n)
        D      == PagesFor(dirLen, P)
        dsz    == IF f.kind = "dirsize" THEN f.a
                  ELSE IF f.kind = "zero" THEN 0 ELSE dirLen
        Dn     == PagesFor(dsz, P)
        hdrLen == FixedHdrLen + 2 * Dn
        Hp     == PagesFor(hdrLen, P)
        base   == Hp + 1 + D
    IN  [N |-> N, decl |-> decl, n |-> n, dirLen |-> dirLen, D |-> D, dsz |-> dsz,
         Dn |-> Dn, hdrLen |-> hdrLen, Hp |-> Hp, base |-> base,
         T |-> base + SumSeq(n)]

\* A page number far outside the file.
FarPage(L) == L.T + 5

\* The defects of the container with layout L: the page lists of the
\* streams in reverse order (no defect to the code), a page size and a
\* stream table size of 0, a free page map page or a page count outside the
\* file, a changed signature byte, a file cut short, a page size or a
\* stream table size or a stream size that is wrong, a page number outside
\* the file.
Faults(P, L) ==
    {NoFault, [kind |-> "reversed", a |-> 0, b |-> 0], [kind |-> "zero", a |-> 0, b |-> 0],
     [kind |-> "fpm", a |-> 0, b |-> 0], [kind |-> "npages", a |-> 0, b |-> 0]}
    \cup {[kind |-> "magic", a |-> k, b |-> 0] : k \in {1, 22, MagicLen}}
    \cup {[kind |-> "cut", a |-> c, b |-> 0] :
            c \in {0, MagicLen - 1, FixedHdrLen - 1, L.hdrLen - 1, (L.Hp + 1) * P - 1,
                   L.base * P - 1, L.T * P - 1}}
    \cup {[kind |-> "pagesize", a |-> v, b |-> 0] : v \in {0, -P}}
    \cup {[kind |-> "dirsize", a |-> v, b |-> 0] : v \in {-P - 1, -1, 0, 3, L.dirLen - 1}}
    \cup {[kind |-> "dirsize", a |-> L.D * P + 1, b |-> q] : q \in {L.Hp, FarPage(L)}}
    \cup {[kind |-> "size", a |-> i, b |-> v] : i \in 1..L.N, v \in {-1, -P - 1}}
    \cup UNION {{[kind |-> "badpage", a |-> i, b |-> j] : j \in 1..L.n[i]} : i \in 1..L.N}

\* Byte j (0-based) of data page q: never 0, and different from page to page.
PageByte(q, j) == 1 + ((7 * q + 3 * j) % 255)

\* Byte b (0-based) of the free page map: bit p is 0 for the T pages in use.
FpmByte(b, T) ==
    SumSeq([j \in 1..8 |-> IF 8 * b + (j - 1) >= T THEN 2 ^ (j - 1) ELSE 0])

\* The bytes of the file.
Build(P, sizes, f) ==
    LET L       == Layout(P, sizes, f)
        first   == [i \in 1..L.N |-> L.base + SumSeq(SubSeq(L.n, 1, i - 1))]
        pageOf(i, j) ==
            IF f.kind = "badpage" /\ f.a = i /\ f.b = j THEN FarPage(L)
            ELSE IF f.kind = "reversed" THEN first[i] + (L.n[i] - j)
            ELSE first[i] + (j - 1)
        dirBytes ==
            PutI32(L.N)
            \o Flatten([i \in 1..L.N |-> PutI32(L.decl[i]) \o PutI32(0)])
            \o Flatten([i \in 1..L.N |-> Flatten([j \in 1..L.n[i] |-> PutU16(pageOf(i, j))])])
        dirPage(k) == IF k <= L.D THEN L.Hp + k ELSE f.b
        magic   == [k \in 1..MagicLen |->
                      IF f.kind = "magic" /\ f.a = k THEN (msfSignature[k] + 1) % 256
                      ELSE msfSignature[k]]
        hdr     == magic
                   \o PutI32(IF f.kind = "pagesize" THEN f.a
                             ELSE IF f.kind = "zero" THEN 0 ELSE P)
                   \o PutU16(IF f.kind = "fpm" THEN FarPage(L) ELSE L.Hp)
                   \o PutU16(IF f.kind = "npages" THEN 8 * P + 1 ELSE L.T)
                   \o PutI32(L.dsz) \o PutI32(0)
                   \o Flatten([k \in 1..L.Dn |-> PutU16(dirPage(k))])
        whole   == hdr \o Zeros(L.Hp * P - Len(hdr))
                   \o [b \in 1..P |-> FpmByte(b - 1, L.T)]
                   \o dirBytes \o [k \in 1..(L.D * P - Len(dirBytes)) |-> 238]
                   \o Flatten([q \in 1..(L.T - L.base) |->
                                 [j \in 1..P |-> PageByte(L.base + q - 1, j - 1)]])
    IN  IF f.kind = "cut" THEN SubSeq(whole, 1, Min(f.a, Len(whole))) ELSE whole

(* ---------------------------------------------------------------------- *)
(* State                                                                  *)
(* ---------------------------------------------------------------------- *)

VARIABLES
    backing,      \* the array behind buf and File.Data: the bytes of the file at
                  \* pdbPath, then the spare capacity
    dataLen,      \* len(buf), len(File.Data)
    arch,         \* the build
    pc,           \* position in ParseFile, then "loaded", "error" or "panic"
                  \* (int is 64 bits wide: no product of a page number and a
                  \* page size overflows)
    FileHdr,      \* File.FileHdr
    FreePageMap,  \* File.FreePageMap
    StreamTbl,    \* File.StreamTbl
    Streams,      \* File.Streams: the stream numbers of the decoded streams
    streamNum,    \* the loop variable of ParseFile
    result,       \* what ParseFile returned: [file, err]
    stages,       \* history: the stages ParseFile has run
    dispatch,     \* history: what parseStream did with each stream number
    pageLog,      \* history: the readPage calls of the last step
    ret,          \* the result of the last call on the loaded File
    snap          \* history: the File right after ParseFile returned it

vars == <<backing, dataLen, arch, pc, FileHdr, FreePageMap, StreamTbl, Streams,
          streamNum, result, stages, dispatch, pageLog, ret, snap>>

\* File.Data
Data == SubSeq(backing, 1, dataLen)

NoRet == [op |-> "none"]

Init ==
    \E P \in PageSizes :
      \E sizes \in SeqsUpTo(StreamSizes(P), MaxStreams) :
        \E f \in Faults(P, Layout(P, sizes, NoFault)) :
          \E slack \in Slacks(P) :
            \E arc \in Archs :
              \* the build matters only where the code divides by zero
              /\ (f.kind \notin {"pagesize", "zero"} => arc = "amd64")
              /\ LET bytes == Build(P, sizes, f)
                 IN  /\ backing = bytes \o Zeros(slack)
                     /\ dataLen = Len(bytes)
              /\ arch = arc
              /\ pc = "ReadFile"
              /\ FileHdr = Nil
              /\ FreePageMap = Nil
              /\ StreamTbl = Nil
              /\ Streams = <<>>
              /\ streamNum = 0
              /\ result = Nil
              /\ stages = <<>>
              /\ dispatch = <<>>
              /\ pageLog = <<>>
              /\ ret = NoRet
              /\ snap = Nil

(* ---------------------------------------------------------------------- *)
(* ParseFile, step by step                                                *)
(* ---------------------------------------------------------------------- *)

\* What ParseFile returns: a *File or nil, and an error or nil.
Returned(file, err) == [file |-> file, err |-> err]

\* The entry of pageLog for one readPage call.
LogOf(pageNum, pg) == [pageNum |-> pageNum, st |-> pg.st]

\* The readPage calls of "for each page of pageNumMap: readPage(page)".
LogOfPages(arr, pageSize, pageNumMap) ==
    LET pgs == readPages(arr, pageSize, pageNumMap)
    IN  [k \in 1..Len(pgs) |-> LogOf(pageNumMap[k], pgs[k])]

\* Lines 66-73: read the file; a failure of ioutil.ReadFile is returned.
ReadFileStep ==
    /\ pc = "ReadFile"
    /\ \E err \in {"nil", "ReadFile"} :
         /\ pc' = IF err = "nil" THEN "parseMSFHeader" ELSE "error"
         /\ result' = IF err = "nil" THEN result ELSE Returned("nil", err)
    /\ stages' = Append(stages, "ReadFile")
    /\ UNCHANGED <<backing, dataLen, arch, FileHdr, FreePageMap, StreamTbl, Streams,
                   streamNum, dispatch, pageLog, ret, snap>>

\* Lines 74-79: parse the MSF file header.
ParseHeaderStep ==
    /\ pc = "parseMSFHeader"
    /\ LET r == parseMSFHeader(Data, arch)
       IN  /\ FileHdr' = IF r.st = "ok" THEN r.hdr ELSE FileHdr
           /\ pc' = CASE r.st = "ok"    -> "readFreePageMap"
                      [] r.st = "err"   -> "error"
                      [] r.st = "panic" -> "panic"
           /\ result' = IF r.st = "err" THEN Returned("nil", r.err) ELSE result
    /\ stages' = Append(stages, "parseMSFHeader")
    /\ pageLog' = <<>>
    /\ UNCHANGED <<backing, dataLen, arch, FreePageMap, StreamTbl, Streams, streamNum,
                   dispatch, ret, snap>>

\* Lines 80-84: the free page map is the page FreePageMapPageNum, as a view
\* of Data.
FreePageMapStep ==
    /\ pc = "readFreePageMap"
    /\ LET pg == readPage(backing, FileHdr.PageSize, FileHdr.FreePageMapPageNum)
       IN  /\ FreePageMap' = IF pg.st = "ok" THEN [PageBits |-> pg.bytes] ELSE FreePageMap
           /\ pc' = IF pg.st = "ok" THEN "parseStreamTable" ELSE "panic"
           /\ pageLog' = <<LogOf(FileHdr.FreePageMapPageNum, pg)>>
    /\ stages' = Append(stages, "readFreePageMap")
    /\ UNCHANGED <<backing, dataLen, arch, FileHdr, StreamTbl, Streams, streamNum,
                   result, dispatch, ret, snap>>

\* Lines 85-91: read the stream table's bytes and parse them.
StreamTableStep ==
    /\ pc = "parseStreamTable"
    /\ LET d == readStreamTable(backing, FileHdr, arch)
           t == IF d.st = "ok" THEN parseStreamTable(d.bytes, FileHdr.PageSize, arch)
                ELSE [st |-> "panic", err |-> "nil", tbl |-> NoTbl]
       IN  /\ StreamTbl' = IF t.st = "ok" THEN t.tbl ELSE StreamTbl
           /\ pc' = CASE t.st = "ok"    -> "parseStream"
                      [] t.st = "err"   -> "error"
                      [] t.st = "panic" -> "panic"
           /\ result' = IF t.st = "err" THEN Returned("nil", t.err) ELSE result
    /\ pageLog' = LogOfPages(backing, FileHdr.PageSize,
                             SubSeq(FileHdr.PageNumMap, 1,
                                    CeilInt(FileHdr.StreamTblInfo.Size, FileHdr.PageSize, arch)))
    /\ stages' = Append(stages, "parseStreamTable")
    /\ UNCHANGED <<backing, dataLen, arch, FileHdr, FreePageMap, Streams, streamNum,
                   dispatch, ret, snap>>

\* file.parsePDBStream(bytes.NewReader(streamData)): the decoder of the PDB
\* stream lives outside pdb.go; it returns a *PDBStream or an error.
parsePDBStream(streamData, accepts) ==
    IF accepts THEN [err |-> "nil", stream |-> [type |-> "PDBStream", size |-> Len(streamData)]]
    ELSE [err |-> "parsePDBStream", stream |-> Nil]

\* The switch of parseStream on the bytes of stream num: the new
\* File.Streams, the error parseStream returns and what it did.
parseStream(streams, num, streamData, accepts) ==
    IF num = StreamIDPDBStream
      THEN LET r == parsePDBStream(streamData, accepts)
           IN  IF r.err # "nil"
                 THEN [Streams |-> streams, err |-> r.err, did |-> "failed"]
               ELSE [Streams |-> Append(streams, r.stream), err |-> "nil", did |-> "decoded"]
    ELSE [Streams |-> streams, err |-> "nil", did |-> "unimplemented"]

\* A ParseFile that returns the error of parseStream.
afterParseStreamChecked(err) == IF err # "nil" THEN "error" ELSE "parseStream"

\* What ParseFile does with the error parseStream returns (line 94: the
\* call is a statement, the error is dropped): the next value of pc.
afterParseStream(err) == "parseStream"

\* Lines 93-95, one iteration: parseStream(streamNum), which reassembles
\* the stream before it looks at the stream number.
ParseStreamStep ==
    /\ pc = "parseStream"
    /\ streamNum < StreamTbl.NStreams
    /\ LET d == readStreamData(backing, FileHdr.PageSize, StreamTbl, streamNum)
       IN  /\ pageLog' = LogOfPages(backing, FileHdr.PageSize,
                                    StreamTbl.PageNumMaps[streamNum + 1])
           /\ IF d.st = "panic"
                THEN /\ pc' = "panic"
                     /\ UNCHANGED <<Streams, streamNum, dispatch, result>>
              ELSE \E accepts \in BOOLEAN :
                     LET r == parseStream(Streams, streamNum, d.bytes, accepts)
                     IN  /\ (streamNum # StreamIDPDBStream => accepts)
                         /\ Streams' = r.Streams
                         /\ dispatch' = Append(dispatch, [streamNum |-> streamNum, accepts |-> accepts,
                                                          did |-> r.did])
                         /\ pc' = afterParseStream(r.err)
                         /\ result' = IF pc' = "error" THEN Returned("nil", r.err) ELSE result
                         /\ streamNum' = IF pc' = "parseStream" THEN streamNum + 1 ELSE streamNum
    /\ stages' = Append(stages, "parseStream")
    /\ UNCHANGED <<backing, dataLen, arch, FileHdr, FreePageMap, StreamTbl, ret, snap>>

\* The File as a value: what the fields hold.
FileValue == [backing |-> backing, dataLen |-> dataLen, FileHdr |-> FileHdr,
              FreePageMap |-> FreePageMap, StreamTbl |-> StreamTbl]

\* Line 96: the loop is over, return file, nil.
ReturnStep ==
    /\ pc = "parseStream"
    /\ streamNum >= StreamTbl.NStreams
    /\ pc' = "loaded"
    /\ result' = Returned("file", "nil")
    /\ snap' = FileValue
    /\ pageLog' = <<>>
    /\ UNCHANGED <<backing, dataLen, arch, FileHdr, FreePageMap, StreamTbl, Streams,
                   streamNum, stages, dispatch, ret>>

(* ---------------------------------------------------------------------- *)
(* Calls on the loaded File                                               *)
(* ---------------------------------------------------------------------- *)

\* Stream numbers a caller asks for: in range, negative, too large.
StreamArgs == -1..(MaxStreams + 1)

\* Page numbers a caller asks for: the first, the last whole page of Data,
\* and the one after it.
PageArgs == IF FileHdr = Nil \/ FileHdr.PageSize <= 0 THEN {0}
            ELSE {0, (dataLen \div FileHdr.PageSize) - 1, dataLen \div FileHdr.PageSize}

\* Page numbers a caller asks the free page map about.
FreeArgs == IF FileHdr = Nil \/ FileHdr.PageSize <= 0 THEN {0}
            ELSE {0, FileHdr.NPages - 1, FileHdr.NPages,
                  8 * FileHdr.PageSize - 1, 8 * FileHdr.PageSize} \cap Nat

\* file.readStreamData(i) called on the loaded File.
CallReadStream ==
    /\ pc = "loaded"
    /\ \E i \in StreamArgs :
         LET r == readStreamData(backing, FileHdr.PageSize, StreamTbl, i)
         IN  /\ ret' = [op |-> "readStream", arg |-> i, st |-> r.st, bytes |-> r.bytes,
                        own |-> r.own, off |-> r.off]
             /\ pc' = IF r.st = "panic" THEN "panic" ELSE pc
             /\ pageLog' = IF i < 0 \/ i >= Len(StreamTbl.PageNumMaps) THEN <<>>
                           ELSE LogOfPages(backing, FileHdr.PageSize, StreamTbl.PageNumMaps[i + 1])
    /\ UNCHANGED <<backing, dataLen, arch, FileHdr, FreePageMap, StreamTbl, Streams,
                   streamNum, result, stages, dispatch, snap>>

\* file.readPage(p) called on the loaded File: the result is a view of Data.
CallReadPage ==
    /\ pc = "loaded"
    /\ \E p \in PageArgs :
         LET pg == readPage(backing, FileHdr.PageSize, p)
         IN  /\ ret' = [op |-> "readPage", arg |-> p, st |-> pg.st, bytes |-> pg.bytes,
                        own |-> FALSE, off |-> pg.off]
             /\ pc' = IF pg.st = "panic" THEN "panic" ELSE pc
             /\ pageLog' = <<LogOf(p, pg)>>
    /\ UNCHANGED <<backing, dataLen, arch, FileHdr, FreePageMap, StreamTbl, Streams,
                   streamNum, result, stages, dispatch, snap>>

\* file.FreePageMap.IsFree(p) called on the loaded File.
CallIsFree ==
    /\ pc = "loaded"
    /\ \E p \in FreeArgs :
         LET r == IsFree(FreePageMap.PageBits, p)
         IN  /\ ret' = [op |-> "isFree", arg |-> p, st |-> r.st, free |-> r.free]
             /\ pc' = IF r.st = "panic" THEN "panic" ELSE pc
    /\ pageLog' = <<>>
    /\ UNCHANGED <<backing, dataLen, arch, FileHdr, FreePageMap, StreamTbl, Streams,
                   streamNum, result, stages, dispatch, snap>>

\* The caller overwrites one byte of the bytes readStreamData returned.  If
\* those bytes are a view of the array behind Data (own is FALSE), the
\* write lands in that array.
MutateReturned ==
    /\ pc = "loaded"
    /\ ret.op = "readStream"
    /\ ret.st = "ok"
    /\ \E k \in {1, Len(ret.bytes)} \cap (1..Len(ret.bytes)) :
         /\ LET v == (ret.bytes[k] + 1) % 256
            IN  /\ ret' = [ret EXCEPT !.op = "mutated", !.bytes[k] = v]
                /\ backing' = IF ret.own THEN backing
                              ELSE [backing EXCEPT ![ret.off + k] = v]
    /\ UNCHANGED <<dataLen, arch, pc, FileHdr, FreePageMap, StreamTbl, Streams,
                   streamNum, result, stages, dispatch, pageLog, snap>>

Next ==
    \/ ReadFileStep
    \/ ParseHeaderStep
    \/ FreePageMapStep
    \/ StreamTableStep
    \/ ParseStreamStep
    \/ ReturnStep
    \/ CallReadStream
    \/ CallReadPage
    \/ CallIsFree
    \/ MutateReturned


Spec == Init /\ [][Next]_vars

(* ---------------------------------------------------------------------- *)
(* Properties                                                             *)
(* ---------------------------------------------------------------------- *)

Loaded == pc = "loaded"

\* ParseFile returned the File at some point (calls on it may have followed).
WasLoaded == snap # Nil

\* The least n with n * P >= size, for size >= 0 and P > 0.
Ceiling(size, P) == CHOOSE n \in 0..size : n * P >= size /\ (n = 0 \/ (n - 1) * P < size)

\* Byte k (0-based) of the pages pageNumMap names, laid end to end, read
\* straight from the array behind Data.
PagedByte(pageNumMap, P, k) == backing[pageNumMap[(k \div P) + 1] * P + (k % P) + 1]

\* The bytes stream i of the loaded File stands for.
StreamBytes(i) ==
    [k \in 1..StreamTbl.StreamInfos[i + 1].Size |->
       PagedByte(StreamTbl.PageNumMaps[i + 1], FileHdr.PageSize, k - 1)]

InRange(i) == 0 <= i /\ i < StreamTbl.NStreams

\* The bytes [start, start + P) of page pageNum lie inside Data.
PageInData(pageNum, P) == 0 <= pageNum * P /\ pageNum * P + P <= dataLen

(* C1: on a loaded File, readStreamData(i) for 0 <= i < NStreams returns   *)
(* exactly StreamInfos[i].Size bytes, and they are the bytes of the pages  *)
(* of PageNumMaps[i] in list order, cut to Size; a stream of size 0 with   *)
(* no pages gives the empty sequence.                                      *)
C1_ReadStreamExact ==
    /\ Loaded =>
         \A i \in 0..(StreamTbl.NStreams - 1) :
           LET r == readStreamData(backing, FileHdr.PageSize, StreamTbl, i)
           IN  /\ r.st = "ok"
               /\ Len(r.bytes) = StreamTbl.StreamInfos[i + 1].Size
               /\ r.bytes = StreamBytes(i)
               /\ (StreamTbl.StreamInfos[i + 1].Size = 0 => r.bytes = <<>>)
    /\ (WasLoaded /\ ret.op = "readStream" /\ InRange(ret.arg)) =>
         /\ ret.st = "ok"
         /\ Len(ret.bytes) = StreamTbl.StreamInfos[ret.arg + 1].Size
         /\ ret.bytes = StreamBytes(ret.arg)

\* readStreamData has returned a stream of a page and a byte whose two pages
\* are out of order in the file.
C1_Witness ==
    /\ WasLoaded /\ ret.op = "readStream" /\ InRange(ret.arg) /\ ret.st = "ok"
    /\ Len(ret.bytes) = FileHdr.PageSize + 1
    /\ LET m == StreamTbl.PageNumMaps[ret.arg + 1] IN Len(m) = 2 /\ m[1] > m[2]

\* The first 44 bytes of the input are not the MSF signature (fewer than 44
\* bytes are not the signature either).
BadMagic == dataLen < MagicLen \/ \E k \in 1..MagicLen : backing[k] # msfSignature[k]

(* C2: if the first 44 bytes of the input differ from the MSF signature,   *)
(* ParseFile returns (nil, error) from parseMSFHeader and runs no later    *)
(* stage: no free page map, no stream table, no stream dispatch.           *)
C2_BadMagicFails ==
    (BadMagic /\ \E k \in 1..Len(stages) : stages[k] = "parseMSFHeader") =>
        /\ pc = "error"
        /\ result = Returned("nil", IF dataLen >= MagicLen THEN "invalid MSF signature"
                                    ELSE IF dataLen = 0 THEN "EOF" ELSE "unexpected EOF")
        /\ stages = <<"ReadFile", "parseMSFHeader">>
        /\ FileHdr = Nil /\ FreePageMap = Nil /\ StreamTbl = Nil
        /\ Streams = <<>> /\ dispatch = <<>> /\ pageLog = <<>>

\* ParseFile has failed on an input whose signature is wrong in its last
\* byte only.
C2_Witness ==
    /\ pc = "error"
    /\ result = Returned("nil", "invalid MSF signature")
    /\ dataLen >= MagicLen
    /\ backing[MagicLen] # msfSignature[MagicLen]
    /\ SubSeq(backing, 1, MagicLen - 1) = SubSeq(msfSignature, 1, MagicLen - 1)

(* C3: readPage(pageNum) returns the bytes [pageNum*pageSize,              *)
(* pageNum*pageSize+pageSize) of the buffer, and whenever that range       *)
(* extends past the buffer's length it fails with a returned               *)
(* OutOfRangeError, for every caller.                                      *)
C3_ReadPageErrorValue ==
    /\ (FileHdr # Nil /\ FileHdr.PageSize > 0) =>
         \A k \in 1..Len(pageLog) :
           IF PageInData(pageLog[k].pageNum, FileHdr.PageSize)
             THEN pageLog[k].st = "ok"
           ELSE pageLog[k].st = "OutOfRangeError"
    /\ (WasLoaded /\ ret.op = "readPage" /\ PageInData(ret.arg, FileHdr.PageSize)) =>
         ret.bytes = SubSeq(backing, ret.arg * FileHdr.PageSize + 1,
                            ret.arg * FileHdr.PageSize + FileHdr.PageSize)

(* C4: on a loaded File, readStreamData with a stream number >= NStreams   *)
(* or negative gives an UnknownStreamError result and leaves the File as   *)
(* it was, still answering calls.                                          *)
C4_UnknownStreamError ==
    (WasLoaded /\ ret.op = "readStream" /\ ~InRange(ret.arg)) =>
        /\ ret.st = "UnknownStreamError"
        /\ pc = "loaded"
        /\ FileValue = snap

(* C5: once the header, the free page map and the stream table are decoded,*)
(* ParseFile returns the File; nothing about a stream other than stream 1  *)
(* (its size, its page list) can make the load fail, and parseStream is    *)
(* called for 0..NStreams-1 in increasing order, once each.                *)
C5_UndecodedStreamsHarmless ==
    /\ (StreamTbl # Nil /\ ~WasLoaded /\ pc \in {"panic", "error"}) =>
           streamNum = StreamIDPDBStream
    /\ StreamTbl # Nil => \A k \in 1..Len(dispatch) : dispatch[k].streamNum = k - 1
    /\ WasLoaded => Len(dispatch) = StreamTbl.NStreams

\* The number of bytes the stream table's pages that lie inside Data supply.
DirBytesInData ==
    FileHdr.PageSize *
      Cardinality({k \in 1..Len(FileHdr.PageNumMap) :
                     PageInData(FileHdr.PageNumMap[k], FileHdr.PageSize)})

(* C6: when the header declares a stream table size larger than the bytes  *)
(* its pages inside the buffer supply, ParseFile returns (nil, error) from *)
(* the stream table stage; it neither loads nor ends abnormally.           *)
C6_TruncatedDirectoryError ==
    (/\ FileHdr # Nil
     /\ FileHdr.PageSize > 0
     /\ FileHdr.StreamTblInfo.Size > DirBytesInData
     /\ \E k \in 1..Len(stages) : stages[k] = "parseStreamTable") =>
        /\ pc = "error"
        /\ result.file = "nil" /\ result.err \in EOFErrors
        /\ StreamTbl = Nil

\* Byte k (0-based) of the stream table, read from its pages.
DirByte(k) == PagedByte(FileHdr.PageNumMap, FileHdr.PageSize, k)

\* The uint16 at offset off (0-based) of the stream table.
DirU16(off) == DirByte(off) + 256 * DirByte(off + 1)

\* The offset in the stream table of entry j (1-based) of list i (1-based)
\* when the lists follow one another in stream order.
EntryOffset(i, j) ==
    4 + 8 * StreamTbl.NStreams
    + 2 * SumSeq([k \in 1..(i - 1) |->
                    Ceiling(StreamTbl.StreamInfos[k].Size, FileHdr.PageSize)])
    + 2 * (j - 1)

(* C7: after a successful load every page-index list has length            *)
(* ceil(byteSize / pageSize): the header's PageNumMap for the stream table *)
(* size, PageNumMaps[i] for StreamInfos[i].Size (page size 4096 and sizes  *)
(* 1000, 8000, 16000, 9000 give 1, 2, 4, 3); and the lists are read from   *)
(* the stream table one after the other in stream order.                   *)
C7_PageListLengths ==
    Loaded =>
        /\ Len(FileHdr.PageNumMap) = Ceiling(FileHdr.StreamTblInfo.Size, FileHdr.PageSize)
        /\ Len(StreamTbl.PageNumMaps) = StreamTbl.NStreams
        /\ \A i \in 1..StreamTbl.NStreams :
             /\ Len(StreamTbl.PageNumMaps[i]) =
                  Ceiling(StreamTbl.StreamInfos[i].Size, FileHdr.PageSize)
             /\ \A j \in 1..Len(StreamTbl.PageNumMaps[i]) :
                  StreamTbl.PageNumMaps[i][j] = DirU16(EntryOffset(i, j))
        /\ [k \in 1..4 |-> CeilInt(<<1000, 8000, 16000, 9000>>[k], 4096, arch)]
             = <<1, 2, 4, 3>>

\* A File is loaded whose first stream has two pages and whose second
\* stream has pages after them.
C7_Witness ==
    /\ Loaded
    /\ StreamTbl.NStreams >= 2
    /\ Len(StreamTbl.PageNumMaps[1]) = 2
    /\ Len(StreamTbl.PageNumMaps[2]) >= 1
    /\ StreamTbl.PageNumMaps[2][1] # StreamTbl.PageNumMaps[1][1]

(* C8: the free page map is the one page FreePageMapPageNum, and for every *)
(* page number p < NPages IsFree(p) stays inside the bitmap and is true    *)
(* exactly when bit p%8 of byte p/8 is 1.                                  *)
C8_IsFreeInBounds ==
    Loaded =>
        /\ FreePageMap.PageBits =
             SubSeq(backing, FileHdr.FreePageMapPageNum * FileHdr.PageSize + 1,
                    (FileHdr.FreePageMapPageNum + 1) * FileHdr.PageSize)
        /\ \A p \in 0..(FileHdr.NPages - 1) :
             LET r == IsFree(FreePageMap.PageBits, p)
             IN  /\ p \div 8 < Len(FreePageMap.PageBits)
                 /\ r.st = "ok"
                 /\ r.free = (Bit(FreePageMap.PageBits[(p \div 8) + 1], p % 8) = 1)

(* C9: readStreamData, readPage and IsFree change nothing: after any calls *)
(* the buffer, header, free page map and stream table are as ParseFile     *)
(* left them; and the bytes readStreamData returns are a copy, so writing  *)
(* to them changes neither the buffer nor what a later readStreamData      *)
(* returns.                                                                *)
C9_ReadOnly ==
    WasLoaded =>
        /\ FileValue = snap
        /\ (ret.op \in {"readStream", "mutated"} /\ InRange(ret.arg)) =>
             \A i \in 0..(StreamTbl.NStreams - 1) :
               readStreamData(backing, FileHdr.PageSize, StreamTbl, i).bytes
                 = [k \in 1..snap.StreamTbl.StreamInfos[i + 1].Size |->
                      snap.backing[snap.StreamTbl.PageNumMaps[i + 1]
                                     [((k - 1) \div FileHdr.PageSize) + 1] * FileHdr.PageSize
                                   + ((k - 1) % FileHdr.PageSize) + 1]]

\* The caller has overwritten a byte of a stream readStreamData returned.
C9_Witness ==
    /\ WasLoaded /\ ret.op = "mutated" /\ Len(ret.bytes) >= 1
    /\ ret.bytes # StreamBytes(ret.arg)

(* C10: after a load that returns the File, File.Streams holds at most one *)
(* entry, and exactly one iff the stream table declares at least 2 streams *)
(* and the PDB stream decoder accepted stream 1; a decoder failure is      *)
(* dropped: the load still returns the File and no error.                  *)
C10_StreamsList ==
    /\ WasLoaded =>
         /\ result = Returned("file", "nil")
         /\ Len(Streams) <= 1
         /\ (Len(Streams) = 1) <=>
              (StreamTbl.NStreams >= 2 /\ dispatch[StreamIDPDBStream + 1].accepts)
    /\ (result # Nil /\ result.err # "nil") =>
         (result.file = "nil" /\ pc = "error" /\ StreamTbl = Nil /\ dispatch = <<>>)
    /\ (StreamTbl # Nil /\ ~WasLoaded) => pc \in {"parseStream", "panic"}

\* A File is loaded although the decoder rejected stream 1.
C10_Witness ==
    /\ Loaded
    /\ StreamTbl.NStreams >= 2
    /\ ~dispatch[StreamIDPDBStream + 1].accepts
    /\ Streams = <<>>

====
